---- MODULE Spec2Model ----
(***************************************************************************)
(* Model of bellperson's fixed-window multi-scalar multiplication          *)
(* (src/groth16/utils.rs): precompute_fixed_window, the table views        *)
(* (at_point), the single-threaded accumulator multiscalar and the         *)
(* threaded par_multiscalar with its work counter.                         *)
(*                                                                         *)
(* Group elements are the elements of the cyclic group Z_GroupOrder (G1    *)
(* is cyclic); the affine and the projective form of a point both stand    *)
(* for the group element they denote.  A u64 limb is the set of the        *)
(* positions of its one bits, so that shifts and masks are computed bit    *)
(* by bit and 64-bit values never have to fit a model integer.             *)
(***************************************************************************)
EXTENDS Integers, Sequences, FiniteSets, TLC

VARIABLES
    \* ---- an accumulator run: a table, its views, one call of multiscalar
    a_pc,       \* "new", "table", "view", "done"
    a_points,   \* the base points handed to precompute_fixed_window
    a_window,   \* its window_size
    a_k,        \* one scalar representation per base point
    a_nbits,    \* nbits of the call of multiscalar
    a_table,    \* the MultiscalarPrecompOwned built
    a_view,     \* the MultiscalarPrecompRef last taken
    a_off,      \* sum of the offsets the views were taken at
    a_items,    \* num_points of the call of multiscalar
    a_via,      \* what the call was given: "owned" table or "view"
    a_out,      \* what the call of multiscalar left
    \* ---- a call of par_multiscalar
    p_pc,           \* "call", "running", "returned", "panicked"
    p_points,       \* the base points the table was built from
    p_max_threads,  \* argument max_threads
    p_k,            \* argument k: [kind |-> "Slice" or "Getter", data |-> scalars]
    p_table,        \* argument precomp_table, built by precompute_fixed_window
    p_num_points,   \* argument num_points
    p_nbits,        \* argument nbits
    p_chunk_size,   \* local chunk_size
    p_num_threads,  \* local num_threads
    work,           \* the AtomicUsize work counter
    w_pc,           \* per worker: "loop", "chunk", "done", "panic"
    w_i,            \* per worker: the value its last fetch_add returned
    scalar_storage, \* per worker: its scratch buffer
    thr_result,     \* per worker: its running sum
    p_result,       \* the local result: zero, then what par_multiscalar returns
    ms_calls,       \* calls of multiscalar made so far
    ms_items,       \* the num_items those calls were given
    getter_calls,   \* invocations of the getter so far
    claimed,        \* <<worker, i>>: the worker took chunk i off the counter
    acc_count,      \* per point index: the times it was accumulated
    getter_count,   \* per point index: the times the getter was invoked with it
    \* ---- the choice of the chunk size alone
    c_pc,           \* "in", "out"
    c_num_points,   \* num_points
    c_chunk_size,   \* the chunk_size chosen for it
    \* ---- a call of get_devices (src/gpu/utils.rs)
    g_pc,            \* "call", "over"
    g_no_gpu,        \* the environment variable BELLMAN_NO_GPU
    g_gpus,          \* the environment variable BELLMAN_GPUS
    g_platforms,     \* what Platform::list() answers
    g_platform_name, \* argument platform_name
    g_devices,       \* what Device::list_all answers for the platform found
    g_result         \* what get_devices leaves

acc_vars == <<a_pc, a_points, a_window, a_k, a_nbits, a_table, a_view, a_off,
              a_items, a_via, a_out>>

par_vars == <<p_pc, p_points, p_max_threads, p_k, p_table, p_num_points, p_nbits,
              p_chunk_size, p_num_threads, work, w_pc, w_i, scalar_storage,
              thr_result, p_result, ms_calls, ms_items, getter_calls,
              claimed, acc_count, getter_count>>

chunk_vars == <<c_pc, c_num_points, c_chunk_size>>

gpu_vars == <<g_pc, g_no_gpu, g_gpus, g_platforms, g_platform_name, g_devices,
              g_result>>

vars == <<acc_vars, par_vars, chunk_vars, gpu_vars>>

\* ---------------------------------------------------------------- bounds
\* order of the model's group
GroupOrder == 13
\* limbs per scalar representation
NumLimbs == 2
\* most base points of an accumulator run
MaxPoints == 2
\* most workers of an explored call of par_multiscalar
MaxWorkers == 3
\* most chunks of an explored call that has more than one worker
MaxSharedChunks == 5
\* scalar sets 0..MaxSeed of the explored calls
MaxSeed == 0
\* most points the chunk size is chosen for
MaxChunkPoints == 1100
\* most characters of the value of BELLMAN_GPUS
GpuTextLen == 3

\* ------------------------------------------------------------- constants
\* std::mem::size_of::<u64>() * 8
BITS_PER_LIMB == 64

\* panics
ConfigPanic == "Unsupported multiscalar window size!"
IndexPanic == "index out of bounds"

\* ------------------------------------------------------- group arithmetic
zero == 0

double(p) == (2 * p) % GroupOrder

\* projective += affine
add_assign_mixed(acc, q) == (acc + q) % GroupOrder

\* projective += projective
add_assign(acc, other) == (acc + other) % GroupOrder

into_projective(q) == q % GroupOrder

into_affine(p) == p % GroupOrder

\* ------------------------------------------------------------- u64 limbs
\* x >> s, for s < 64
Shr(x, s) == {b - s : b \in {c \in x : c >= s}}

\* bit b of a mask below 2^31
MaskBit(mask, b) == b <= 30 /\ (mask \div (2 ^ b)) % 2 = 1

RECURSIVE BitsValue(_)
BitsValue(S) ==
    IF S = {} THEN 0
    ELSE LET b == CHOOSE c \in S : TRUE IN (2 ^ b) + BitsValue(S \ {b})

\* x & mask, as a number
BitAnd(x, mask) == BitsValue({b \in x : MaskBit(mask, b)})

\* ------------------------------------------------------ precomputed table
\* a table builder that doubles the running sum instead of adding the point
PrecompPushDoubling(point, st) ==
    LET next == add_assign_mixed(st.cur_precomp_point, st.cur_precomp_point)
    IN  [ cur_precomp_point |-> next,
          table |-> Append(st.table, into_affine(next)) ]

\* one turn of the loop of precompute_fixed_window: add the point to the
\* running projective sum and push its affine form
PrecompPush(point, st) ==
    LET next == add_assign_mixed(st.cur_precomp_point, point)
    IN  [ cur_precomp_point |-> next,
          table |-> Append(st.table, into_affine(next)) ]

RECURSIVE PrecompLoop(_, _, _)
\* n turns of that loop, one after the other (the first half of the turns
\* is carried out before the second half starts)
PrecompLoop(point, st, n) ==
    IF n <= 0 THEN st
    ELSE IF n = 1 THEN PrecompPush(point, st)
    ELSE LET half == PrecompLoop(point, st, n \div 2)
         IN  IF Len(half.table) > 0
             THEN PrecompLoop(point, half, n - (n \div 2))
             ELSE half

\* the sub-table of one point: the point, then "for _ in 1..table_entries"
PrecompTable(point, table_entries) ==
    PrecompLoop(point,
                [cur_precomp_point |-> into_projective(point), table |-> <<point>>],
                table_entries - 1).table

precompute_fixed_window(points, window_size) ==
    LET table_entries == (2 ^ window_size) - 1
    IN  [ num_points    |-> Len(points),
          window_size   |-> window_size,
          window_mask   |-> (2 ^ window_size) - 1,
          table_entries |-> table_entries,
          tables        |-> [i \in 1..Len(points) |->
                                PrecompTable(points[i], table_entries)] ]

\* tables[idx..]
SliceFrom(s, idx) == SubSeq(s, idx + 1, Len(s))

\* a view that forgets its offset
OwnedAtPointNoOffset(self, idx) ==
    [ num_points    |-> self.num_points - idx,
      window_size   |-> self.window_size,
      window_mask   |-> self.window_mask,
      table_entries |-> self.table_entries,
      tables        |-> self.tables ]

\* MultiscalarPrecompOwned::at_point
OwnedAtPoint(self, idx) ==
    [ num_points    |-> self.num_points - idx,
      window_size   |-> self.window_size,
      window_mask   |-> self.window_mask,
      table_entries |-> self.table_entries,
      tables        |-> SliceFrom(self.tables, idx) ]

\* MultiscalarPrecompRef::at_point
RefAtPoint(self, idx) ==
    [ num_points    |-> self.num_points - idx,
      window_size   |-> self.window_size,
      window_mask   |-> self.window_mask,
      table_entries |-> self.table_entries,
      tables        |-> SliceFrom(self.tables, idx) ]

\* ------------------------------------------------------------ multiscalar
\* a check that forgets the limb width
UnsupportedWindowNoLimb(window_size, nbits) == nbits % window_size # 0

\* the check at the top of multiscalar
UnsupportedWindow(window_size, nbits) ==
    \/ nbits % window_size # 0
    \/ (8 * 8) % window_size # 0

RECURSIVE DoubleTimes(_, _)
DoubleTimes(result, n) ==
    IF n = 0 THEN result ELSE DoubleTimes(double(result), n - 1)

\* a digit shifted by the window's number in its limb, not by its bit offset
WindowDigitNoScale(repr, limb, window_in_limb, window_size, window_mask) ==
    BitAnd(Shr(repr[limb + 1], window_in_limb), window_mask)

\* idx = k[m][limb] >> (window_in_limb * window_size) & window_mask
WindowDigit(repr, limb, window_in_limb, window_size, window_mask) ==
    BitAnd(Shr(repr[limb + 1], window_in_limb * window_size), window_mask)

\* a lookup made whatever the digit is
FetchesAlways(idx) == TRUE

\* "if idx > 0": the digit's table entry is looked up and prefetched
Fetches(idx) == idx > 0

\* a commit that starts one turn late
CommitsLate(prev_idx, m) == prev_idx > 0 /\ m > 1

\* "if prev_idx > 0 && m > 0": the addition of the turn before is committed
Commits(prev_idx, m) == prev_idx > 0 /\ m > 0

\* what multiscalar did to the table, in the order it did it: op is
\* "prefetch" (the lookup of a turn), "add" (the addition committed during a
\* turn) or "flush" (the final addition of a window); at is the turn m of
\* the point loop (num_points for the flush); table and entry name the
\* entry tables()[table][entry]
TableEvent(op, window, at, table, entry) ==
    [op |-> op, window |-> window, at |-> at, table |-> table, entry |-> entry]

\* one turn of the loop "for m in 0..num_points" of a window; st carries
\* result, prev_idx, prev_table, table (sub-tables named by their position
\* in tables()), the counts and the trace of what was done, and the lengths
\* of the slices k and tables() that every index into them is checked against
PointStep(k, precomp_table, limb, window_in_limb, m, st) ==
    IF st.status # "ok" THEN st
    ELSE IF m >= st.k_len THEN [st EXCEPT !.status = IndexPanic]
    ELSE IF limb >= Len(k[m + 1]) THEN [st EXCEPT !.status = IndexPanic]
    ELSE
      LET idx == WindowDigit(k[m + 1], limb, window_in_limb,
                             precomp_table.window_size, precomp_table.window_mask)
      IN  IF idx > 0 /\ ( \/ m >= st.tables_len
                          \/ idx - 1 >= Len(precomp_table.tables[m + 1]) )
          THEN [st EXCEPT !.status = IndexPanic]
          ELSE
            LET fetch == Fetches(idx)
                table == IF fetch THEN m ELSE st.table
                commit == Commits(st.prev_idx, m)
                result == IF commit
                          THEN add_assign_mixed(st.result,
                                 precomp_table.tables[st.prev_table + 1][st.prev_idx])
                          ELSE st.result
                fetched == IF fetch
                           THEN <<TableEvent("prefetch", st.window, m, table, idx - 1)>>
                           ELSE <<>>
                added == IF commit
                         THEN <<TableEvent("add", st.window, m,
                                           st.prev_table, st.prev_idx - 1)>>
                         ELSE <<>>
            IN  [st EXCEPT !.result = result,
                           !.prefetches = @ + (IF fetch THEN 1 ELSE 0),
                           !.adds = @ + (IF commit THEN 1 ELSE 0),
                           !.trace = @ \o fetched \o added,
                           !.prev_idx = idx,
                           !.prev_table = table,
                           !.table = table]

RECURSIVE PointLoop(_, _, _, _, _, _, _)
\* the turns lo, lo+1, .., hi-1 of that loop, one after the other
PointLoop(k, precomp_table, limb, window_in_limb, lo, hi, st) ==
    IF lo >= hi THEN st
    ELSE IF hi = lo + 1 THEN PointStep(k, precomp_table, limb, window_in_limb, lo, st)
    ELSE LET mid == (lo + hi) \div 2
             first == PointLoop(k, precomp_table, limb, window_in_limb, lo, mid, st)
         IN  IF first.status # "ok" THEN first
             ELSE PointLoop(k, precomp_table, limb, window_in_limb, mid, hi, first)

RECURSIVE WindowLoop(_, _, _, _, _)
\* the loop "for i in (0..num_windows).rev()"
WindowLoop(k, precomp_table, num_points, i, st) ==
    IF i < 0 \/ st.status # "ok" THEN st
    ELSE
      LET window_size == precomp_table.window_size
          limb == (i * window_size) \div BITS_PER_LIMB
          window_in_limb == i % (BITS_PER_LIMB \div window_size)
          doubled == [st EXCEPT !.result = DoubleTimes(@, window_size),
                                !.doubles = @ + window_size]
      IN  IF st.tables_len = 0
          THEN [doubled EXCEPT !.status = IndexPanic]
          ELSE
            LET looped == PointLoop(k, precomp_table, limb, window_in_limb, 0, num_points,
                            [doubled EXCEPT !.prev_idx = 0, !.prev_table = 0, !.table = 0,
                                            !.window = i])
                final == IF looped.status = "ok" /\ looped.prev_idx > 0
                         THEN [looped EXCEPT
                                 !.result = add_assign_mixed(@,
                                    precomp_table.tables[looped.prev_table + 1][looped.prev_idx]),
                                 !.adds = @ + 1,
                                 !.trace = Append(@, TableEvent("flush", i, num_points,
                                             looped.prev_table, looped.prev_idx - 1))]
                         ELSE looped
            IN  WindowLoop(k, precomp_table, num_points, i - 1, final)

\* what a call of multiscalar leaves: how it ended, the value returned,
\* the numbers of doublings, table lookups and mixed additions performed
\* and the trace of the lookups and additions
MsOutcome(st) ==
    [ status |-> st.status, result |-> st.result, doubles |-> st.doubles,
      prefetches |-> st.prefetches, adds |-> st.adds, trace |-> st.trace ]

MsStart(k, precomp_table) ==
    [ status |-> "ok", result |-> zero, doubles |-> 0, prefetches |-> 0, adds |-> 0,
      trace |-> <<>>, window |-> 0, prev_idx |-> 0, prev_table |-> 0, table |-> 0,
      k_len |-> Len(k), tables_len |-> Len(precomp_table.tables) ]

\* an accumulator that goes through every scalar it is handed
multiscalarWholeSlice(k, precomp_table, num_points, nbits) ==
    IF UnsupportedWindow(precomp_table.window_size, nbits)
    THEN MsOutcome([MsStart(k, precomp_table) EXCEPT !.status = ConfigPanic])
    ELSE
      LET num_windows == (nbits + precomp_table.window_size - 1)
                            \div precomp_table.window_size
      IN  MsOutcome(WindowLoop(k, precomp_table, Len(k), num_windows - 1,
                               MsStart(k, precomp_table)))

multiscalar(k, precomp_table, num_points, nbits) ==
    IF UnsupportedWindow(precomp_table.window_size, nbits)
    THEN MsOutcome([MsStart(k, precomp_table) EXCEPT !.status = ConfigPanic])
    ELSE
      LET num_windows == (nbits + precomp_table.window_size - 1)
                            \div precomp_table.window_size
      IN  MsOutcome(WindowLoop(k, precomp_table, num_points, num_windows - 1,
                               MsStart(k, precomp_table)))

\* ------------------------------------------------------ naive reference
RECURSIVE Pow2Mod(_)
\* 2^e in Z_GroupOrder
Pow2Mod(e) ==
    IF e = 0 THEN 1 % GroupOrder
    ELSE IF e % 2 = 1 THEN (2 * Pow2Mod(e - 1)) % GroupOrder
    ELSE LET h == Pow2Mod(e \div 2) IN (h * h) % GroupOrder

RECURSIVE BitsMul(_, _, _)
\* (sum of 2^(base + b) over the bits b of a limb) * point
BitsMul(bits, base, point) ==
    IF bits = {} THEN 0
    ELSE LET b == CHOOSE c \in bits : TRUE
         IN  (Pow2Mod(base + b) * point + BitsMul(bits \ {b}, base, point)) % GroupOrder

RECURSIVE LimbsMul(_, _, _)
\* (the number held in the limbs j, j+1, .. of a representation) * point
LimbsMul(repr, j, point) ==
    IF j > Len(repr) THEN 0
    ELSE (BitsMul(repr[j], (j - 1) * BITS_PER_LIMB, point)
            + LimbsMul(repr, j + 1, point)) % GroupOrder

\* scalar * point
ScalarMul(repr, point) == LimbsMul(repr, 1, point)

\* the low nbits bits of a scalar representation
LowBits(repr, nbits) ==
    [j \in 1..Len(repr) |-> {b \in repr[j] : (j - 1) * BITS_PER_LIMB + b < nbits}]

RECURSIVE NaiveSum(_, _, _, _, _)
\* sum of LowBits(k[i], nbits) * points[i] over the 0-based indices
\* from <= i < to
NaiveSum(k, points, from, to, nbits) ==
    IF from >= to THEN 0
    ELSE IF to = from + 1
         THEN ScalarMul(LowBits(k[from + 1], nbits), points[from + 1])
    ELSE LET mid == (from + to) \div 2
         IN  (NaiveSum(k, points, from, mid, nbits)
                + NaiveSum(k, points, mid, to, nbits)) % GroupOrder

\* ------------------------------------------------- accumulator runs: inputs
MkRepr(l0, l1) ==
    [j \in 1..NumLimbs |-> IF j = 1 THEN l0 ELSE IF j = 2 THEN l1 ELSE {}]

ScalarChoices ==
    { MkRepr({}, {}), MkRepr({0, 1, 3}, {}), MkRepr({2, 5, 63}, {0}),
      MkRepr({1, 62}, {1, 3}) }

PointChoices == {1, 6}

\* <<window_size, nbits>>
AccConfigs ==
    { <<1, 3>>, <<2, 4>>, <<4, 8>>, <<2, 66>>, <<8, 72>>, <<2, 0>>,
      <<7, 64>>, <<7, 63>>, <<3, 6>>, <<4, 6>>, <<2, 5>> }

ChunkIdle ==
    /\ c_pc = "idle"
    /\ c_num_points = 0
    /\ c_chunk_size = 0

\* no call of get_devices is part of a run of the multiplication
GpuIdle ==
    /\ g_pc = "idle"
    /\ g_no_gpu = [set |-> FALSE, unicode |-> FALSE, text |-> <<>>]
    /\ g_gpus = [set |-> FALSE, unicode |-> FALSE, text |-> <<>>]
    /\ g_platforms = [ok |-> TRUE, list |-> <<>>]
    /\ g_platform_name = ""
    /\ g_devices = [ok |-> TRUE, list |-> <<>>]
    /\ g_result = [kind |-> "none", msg |-> "", devs |-> <<>>]

\* no call of par_multiscalar is part of an accumulator run
ParIdle ==
    /\ p_pc = "idle"
    /\ p_points = <<>>
    /\ p_max_threads = 0
    /\ p_k = [kind |-> "Slice", data |-> <<>>]
    /\ p_table = "none"
    /\ p_num_points = 0
    /\ p_nbits = 0
    /\ p_chunk_size = 0
    /\ p_num_threads = 0
    /\ work = 0
    /\ w_pc = <<>>
    /\ w_i = <<>>
    /\ scalar_storage = <<>>
    /\ thr_result = <<>>
    /\ p_result = zero
    /\ ms_calls = 0
    /\ ms_items = {}
    /\ getter_calls = 0
    /\ claimed = {}
    /\ acc_count = [i \in 1..p_num_points |-> 0]
    /\ getter_count = [i \in 1..p_num_points |-> 0]

AccInit ==
    /\ ParIdle
    /\ ChunkIdle
    /\ GpuIdle
    /\ a_pc = "new"
    /\ a_points \in UNION {[1..n -> PointChoices] : n \in 0..MaxPoints}
    /\ a_k \in [1..Len(a_points) -> ScalarChoices]
    /\ \E cfg \in AccConfigs : a_window = cfg[1] /\ a_nbits = cfg[2]
    /\ a_table = "none"
    /\ a_view = "none"
    /\ a_off = 0
    /\ a_items = 0
    /\ a_via = "none"
    /\ a_out = "none"

\* precompute_fixed_window(points, window_size)
Precompute ==
    /\ a_pc = "new"
    /\ a_table' = precompute_fixed_window(a_points, a_window)
    /\ a_pc' = "table"
    /\ UNCHANGED <<a_points, a_window, a_k, a_nbits, a_view, a_off, a_items, a_via, a_out>>
    /\ UNCHANGED <<par_vars, chunk_vars, gpu_vars>>

\* table.at_point(idx) on the owner
AtPointOwned(idx) ==
    /\ a_pc = "table"
    /\ idx <= a_table.num_points
    /\ a_view' = OwnedAtPoint(a_table, idx)
    /\ a_off' = idx
    /\ a_pc' = "view"
    /\ UNCHANGED <<a_points, a_window, a_k, a_nbits, a_table, a_items, a_via, a_out>>
    /\ UNCHANGED <<par_vars, chunk_vars, gpu_vars>>

\* view.at_point(idx) on a view
AtPointRef(idx) ==
    /\ a_pc = "view"
    /\ idx <= a_view.num_points
    /\ a_view' = RefAtPoint(a_view, idx)
    /\ a_off' = a_off + idx
    /\ UNCHANGED <<a_pc, a_points, a_window, a_k, a_nbits, a_table, a_items, a_via, a_out>>
    /\ UNCHANGED <<par_vars, chunk_vars, gpu_vars>>

\* multiscalar(k, &table, num_items, nbits)
AccumulateOwned(num_items) ==
    /\ a_pc = "table"
    /\ num_items <= a_table.num_points
    /\ a_items' = num_items
    /\ a_via' = "owned"
    /\ a_out' = multiscalar(a_k, a_table, num_items, a_nbits)
    /\ a_pc' = "done"
    /\ UNCHANGED <<a_points, a_window, a_k, a_nbits, a_table, a_view, a_off>>
    /\ UNCHANGED <<par_vars, chunk_vars, gpu_vars>>

\* multiscalar(&k[off..], &view, num_items, nbits)
AccumulateView(num_items) ==
    /\ a_pc = "view"
    /\ num_items <= a_view.num_points
    /\ a_items' = num_items
    /\ a_via' = "view"
    /\ a_out' = multiscalar(SliceFrom(a_k, a_off), a_view, num_items, a_nbits)
    /\ a_pc' = "done"
    /\ UNCHANGED <<a_points, a_window, a_k, a_nbits, a_table, a_view, a_off>>
    /\ UNCHANGED <<par_vars, chunk_vars, gpu_vars>>

AccNext ==
    \/ Precompute
    \/ \E idx \in 0..MaxPoints : AtPointOwned(idx)
    \/ \E idx \in 0..MaxPoints : AtPointRef(idx)
    \/ \E num_items \in 0..MaxPoints : AccumulateOwned(num_items)
    \/ \E num_items \in 0..MaxPoints : AccumulateView(num_items)

SpecAcc == AccInit /\ [][AccNext]_vars

\* -------------------------------------------------------- par_multiscalar
\* a chunk size without the fallback for tiny inputs
ChunkSizeNoFallback(num_points) == IF num_points > 1024 THEN 256 ELSE 16

\* a chunk size whose upper tier starts at 1024
ChunkSizeAtOrAbove(num_points) ==
    LET tier == IF num_points >= 1024 THEN 256 ELSE 16
    IN  IF tier > num_points THEN 1 ELSE tier

\* the chunk size chosen at the top of par_multiscalar
ChunkSize(num_points) ==
    LET tier == IF num_points > 1024 THEN 256 ELSE 16
    IN  IF tier > num_points THEN 1 ELSE tier

Min(a, b) == IF a <= b THEN a ELSE b

\* a worker count that rounds the number of chunks down
NumThreadsFloor(max_threads, num_points, chunk_size) ==
    Min(max_threads, num_points \div chunk_size)

\* max_threads.min((num_points + chunk_size - 1) / chunk_size)
NumThreads(max_threads, num_points, chunk_size) ==
    Min(max_threads, (num_points + chunk_size - 1) \div chunk_size)

\* end_idx of the chunk that starts at start_idx
EndIdx(start_idx, chunk_size, num_points) ==
    IF start_idx + chunk_size > num_points THEN num_points
    ELSE start_idx + chunk_size

\* Repr::default()
DefaultRepr == [j \in 1..NumLimbs |-> {}]

\* PublicInputs::Getter(f): f(i)
GetterCall(source, i) == source.data[i + 1]

\* a staging loop that asks the getter for the chunk-local index
GetterFillNoOffset(storage, source, start_idx, end_idx) ==
    [j \in 1..Len(storage) |->
        IF j <= end_idx - start_idx THEN GetterCall(source, j - 1)
        ELSE storage[j]]

\* "for i in start_idx..end_idx { scalar_storage[i - start_idx] = getter(i) }"
GetterFill(storage, source, start_idx, end_idx) ==
    [j \in 1..Len(storage) |->
        IF j <= end_idx - start_idx THEN GetterCall(source, start_idx + j - 1)
        ELSE storage[j]]

\* the scratch buffer of a worker after it staged the chunk's scalars
StorageAfter(source, storage, start_idx, end_idx) ==
    IF source.kind = "Slice" THEN storage
    ELSE GetterFill(storage, source, start_idx, end_idx)

\* "let scalars = match k { .. }"
ChunkScalars(source, storage, start_idx, end_idx) ==
    IF source.kind = "Slice" THEN SliceFrom(source.data, start_idx)
    ELSE GetterFill(storage, source, start_idx, end_idx)

Workers == 1..p_num_threads

\* ---- inputs of the explored calls
BitsOf(v) == {b \in 0..5 : (v \div (2 ^ b)) % 2 = 1}

\* scalar i of scalar set seed: a number below 64 in limb 0
ScalarAt(seed, i) == MkRepr(BitsOf((seed * 17 + i * 7 + (i \div 3)) % 64), {})

PointAt(i) == (i * i + 3 * i + 1) % GroupOrder

NumPointsChoices == {0, 1, 2, 3, 15, 16, 17, 1024, 1025}

ThreadChoices == {0, 1, 2, 8}

\* <<window_size, nbits>>
ParConfigs == { <<2, 6>>, <<2, 4>>, <<2, 5>>, <<3, 6>> }

Chunks(n) == (n + ChunkSize(n) - 1) \div ChunkSize(n)

Explored(n, threads) ==
    /\ Min(threads, Chunks(n)) <= MaxWorkers
    /\ Chunks(n) > MaxSharedChunks => threads <= 1

AccIdle ==
    /\ a_pc = "idle"
    /\ a_points = <<>>
    /\ a_window = 0
    /\ a_k = <<>>
    /\ a_nbits = 0
    /\ a_table = "none"
    /\ a_view = "none"
    /\ a_off = 0
    /\ a_items = 0
    /\ a_via = "none"
    /\ a_out = "none"

Init ==
    /\ AccIdle
    /\ ChunkIdle
    /\ GpuIdle
    /\ p_pc = "call"
    /\ p_num_points \in NumPointsChoices
    /\ p_max_threads \in ThreadChoices
    /\ Explored(p_num_points, p_max_threads)
    /\ p_points = [i \in 1..p_num_points |-> PointAt(i - 1)]
    /\ \E seed \in 0..MaxSeed, kind \in {"Slice", "Getter"} :
          p_k = [kind |-> kind,
                 data |-> [i \in 1..p_num_points |-> ScalarAt(seed, i - 1)]]
    /\ \E cfg \in ParConfigs :
          /\ p_table = precompute_fixed_window(p_points, cfg[1])
          /\ p_nbits = cfg[2]
    /\ p_chunk_size = 0
    /\ p_num_threads = 0
    /\ work = 0
    /\ w_pc = <<>>
    /\ w_i = <<>>
    /\ scalar_storage = <<>>
    /\ thr_result = <<>>
    /\ p_result = zero
    /\ ms_calls = 0
    /\ ms_items = {}
    /\ getter_calls = 0
    /\ claimed = {}
    /\ acc_count = [i \in 1..p_num_points |-> 0]
    /\ getter_count = [i \in 1..p_num_points |-> 0]

\* par_multiscalar up to the start of the workers: chunk_size, num_threads,
\* the work counter, and each worker's scratch buffer and running sum
Start ==
    /\ p_pc = "call"
    /\ p_chunk_size' = ChunkSize(p_num_points)
    /\ p_num_threads' = NumThreads(p_max_threads, p_num_points, p_chunk_size')
    /\ work' = 0
    /\ w_pc' = [t \in 1..p_num_threads' |-> "loop"]
    /\ w_i' = [t \in 1..p_num_threads' |-> 0]
    /\ scalar_storage' = [t \in 1..p_num_threads' |->
                             [j \in 1..p_chunk_size' |-> DefaultRepr]]
    /\ thr_result' = [t \in 1..p_num_threads' |-> zero]
    /\ p_pc' = "running"
    /\ UNCHANGED <<p_points, p_max_threads, p_k, p_table, p_num_points, p_nbits,
                   p_result, ms_calls, ms_items, getter_calls,
                   claimed, acc_count, getter_count>>
    /\ UNCHANGED <<acc_vars, chunk_vars, gpu_vars>>

\* a counter that hands out the value before the one it holds
FetchAddStale(counter) ==
    [ returned |-> IF counter > 0 THEN counter - 1 ELSE counter,
      stored |-> counter + 1 ]

\* a counter that steps by two
FetchAddTwo(counter) == [returned |-> counter, stored |-> counter + 2]

\* work.fetch_add(1, Ordering::SeqCst): one atomic step that returns the
\* value the counter held and stores that value plus one
FetchAdd(counter) == [returned |-> counter, stored |-> counter + 1]

\* a worker takes work: "let i = work.fetch_add(1, SeqCst)" and the test
\* "start_idx >= num_points"
Claim(t) ==
    /\ p_pc = "running"
    /\ w_pc[t] = "loop"
    /\ \E fetched \in {FetchAdd(work)} :
          LET i == fetched.returned
              start_idx == i * p_chunk_size
          IN  /\ work' = fetched.stored
              /\ w_i' = [w_i EXCEPT ![t] = i]
              /\ IF start_idx >= p_num_points
                 THEN /\ w_pc' = [w_pc EXCEPT ![t] = "done"]
                      /\ claimed' = claimed
                 ELSE /\ w_pc' = [w_pc EXCEPT ![t] = "chunk"]
                      /\ claimed' = claimed \cup {<<t, i>>}
    /\ UNCHANGED <<p_pc, p_points, p_max_threads, p_k, p_table, p_num_points, p_nbits,
                   p_chunk_size, p_num_threads, scalar_storage, thr_result,
                   p_result, ms_calls, ms_items, getter_calls, acc_count,
                   getter_count>>
    /\ UNCHANGED <<acc_vars, chunk_vars, gpu_vars>>

\* the body of a worker's loop for the chunk i it took, its scratch buffer
\* being storage: the scalars, the table view, and the call of multiscalar
ChunkRun(i, storage) ==
    LET start_idx == i * p_chunk_size
        end_idx == EndIdx(start_idx, p_chunk_size, p_num_points)
        num_items == end_idx - start_idx
        scalars == ChunkScalars(p_k, storage, start_idx, end_idx)
        subset == OwnedAtPoint(p_table, start_idx)
    IN  [ start_idx |-> start_idx,
          end_idx |-> end_idx,
          num_items |-> num_items,
          storage |-> StorageAfter(p_k, storage, start_idx, end_idx),
          acc |-> multiscalar(scalars, subset, num_items, p_nbits) ]

\* a worker carries out the chunk it took and adds what multiscalar
\* returned to its running sum; a panic of multiscalar ends the worker
Process(t) ==
    /\ p_pc = "running"
    /\ w_pc[t] = "chunk"
    /\ \E run \in {ChunkRun(w_i[t], scalar_storage[t])} :
           /\ scalar_storage' = [scalar_storage EXCEPT ![t] = run.storage]
           /\ getter_calls' = getter_calls
                                + (IF p_k.kind = "Getter" THEN run.num_items ELSE 0)
           /\ ms_calls' = ms_calls + 1
           /\ ms_items' = ms_items \cup {run.num_items}
           /\ getter_count' =
                 [j \in 1..p_num_points |->
                     IF p_k.kind = "Getter" /\ run.start_idx < j /\ j <= run.end_idx
                     THEN getter_count[j] + 1 ELSE getter_count[j]]
           /\ IF run.acc.status = "ok"
              THEN /\ thr_result' = [thr_result EXCEPT
                                       ![t] = add_assign(@, run.acc.result)]
                   /\ acc_count' =
                         [j \in 1..p_num_points |->
                             IF run.start_idx < j /\ j <= run.end_idx
                             THEN acc_count[j] + 1 ELSE acc_count[j]]
                   /\ w_pc' = [w_pc EXCEPT ![t] = "loop"]
              ELSE /\ thr_result' = thr_result
                   /\ acc_count' = acc_count
                   /\ w_pc' = [w_pc EXCEPT ![t] = "panic"]
    /\ UNCHANGED <<p_pc, p_points, p_max_threads, p_k, p_table, p_num_points, p_nbits,
                   p_chunk_size, p_num_threads, work, w_i, p_result, claimed>>
    /\ UNCHANGED <<acc_vars, chunk_vars, gpu_vars>>

\* a reduction that keeps only the last worker's sum
AccumulateOverwrite(acc_intermediates, n) ==
    IF n = 0 THEN zero ELSE acc_intermediates[n]

RECURSIVE Accumulate(_, _)
\* "for acc in acc_intermediates { result.add_assign(&acc) }", from the last
Accumulate(acc_intermediates, n) ==
    IF n = 0 THEN zero
    ELSE add_assign(Accumulate(acc_intermediates, n - 1), acc_intermediates[n])

\* a join that waits for one worker only
SomeWorkerOver == \E t \in Workers : w_pc[t] \in {"done", "panic"}

\* the parallel map has collected every worker's value: each worker left
\* its loop, by the break or by a panic
AllWorkersOver == \A t \in Workers : w_pc[t] \in {"done", "panic"}

\* every worker is over: the panic of a worker is the call's, or else the
\* workers' sums are added up and returned
Join ==
    /\ p_pc = "running"
    /\ AllWorkersOver
    /\ IF \E t \in Workers : w_pc[t] = "panic"
       THEN /\ p_pc' = "panicked"
            /\ p_result' = p_result
       ELSE /\ p_pc' = "returned"
            /\ p_result' = Accumulate(thr_result, p_num_threads)
    /\ UNCHANGED <<p_points, p_max_threads, p_k, p_table, p_num_points, p_nbits,
                   p_chunk_size, p_num_threads, work, w_pc, w_i, scalar_storage,
                   thr_result, ms_calls, ms_items, getter_calls, claimed,
                   acc_count, getter_count>>
    /\ UNCHANGED <<acc_vars, chunk_vars, gpu_vars>>

Next ==
    \/ Start
    \/ \E t \in Workers : Claim(t)
    \/ \E t \in Workers : Process(t)
    \/ Join

Spec == Init /\ [][Next]_vars

\* the step of Process(t) as the worker's position shows it: a worker that
\* carries out a chunk goes back to its loop or panics
LeavesChunk(t) ==
    /\ p_pc = "running"
    /\ w_pc[t] = "chunk"
    /\ w_pc' \in {[w_pc EXCEPT ![t] = "loop"], [w_pc EXCEPT ![t] = "panic"]}

\* the pool's threads are scheduled fairly: the caller and every worker
\* that can take a step eventually takes it
FairSpec ==
    /\ Init /\ [][Next]_vars
    /\ WF_vars(Start)
    /\ \A t \in 1..MaxWorkers : WF_vars(t \in Workers /\ Claim(t))
    /\ \A t \in 1..MaxWorkers : WF_w_pc(t \in Workers /\ LeavesChunk(t))
    /\ WF_vars(Join)

\* ---------------------------------------------- the chunk size on its own
ChunkInit ==
    /\ AccIdle
    /\ ParIdle
    /\ GpuIdle
    /\ c_pc = "in"
    /\ c_num_points \in 0..MaxChunkPoints
    /\ c_chunk_size = 0

ChooseChunk ==
    /\ c_pc = "in"
    /\ c_chunk_size' = ChunkSize(c_num_points)
    /\ c_pc' = "out"
    /\ UNCHANGED <<c_num_points, acc_vars, par_vars, gpu_vars>>

ChunkNext == ChooseChunk

SpecChunk == ChunkInit /\ [][ChunkNext]_vars

\* ------------------------------------------- get_devices (gpu/utils.rs)
\* An environment variable is [set, unicode, text]: whether it is set,
\* whether its value is valid Unicode, and the value as a sequence of
\* characters.  A platform is [ok, name]: whether p.name() succeeds, and the
\* name.  A device is [id, info]: info is what info_raw(0x4008) answers,
\* [ok, raw] with raw the bytes of the bus id.
GPU_NVIDIA_PLATFORM_NAME == "NVIDIA CUDA"

DisabledMsg == "GPU accelerator is disabled!"
NotFoundMsg == "GPU platform not found!"
BusIdPanic == "Invalid Bus-Id number!"
OclError == "ocl error"

GpuOk(devs) == [kind |-> "Ok", msg |-> "", devs |-> devs]
GpuErr(msg) == [kind |-> "Err", msg |-> msg, devs |-> <<>>]
GpuPanic(msg) == [kind |-> "Panic", msg |-> msg, devs |-> <<>>]

\* env::var(name).is_ok(): the variable is set and its value is valid Unicode
EnvVarOk(var) == var.set /\ var.unicode

RECURSIVE SplitFrom(_, _, _)
\* v.split(","): the items between the commas, empty ones included, from
\* character j on, cur being the item under way
SplitFrom(text, j, cur) ==
    IF j > Len(text) THEN <<cur>>
    ELSE IF text[j] = "," THEN <<cur>> \o SplitFrom(text, j + 1, <<>>)
    ELSE SplitFrom(text, j + 1, Append(cur, text[j]))

SplitCommas(text) == SplitFrom(text, 1, <<>>)

DigitChars == <<"0", "1", "2", "3", "4", "5", "6", "7", "8", "9">>

IsDigit(c) == \E d \in 1..10 : DigitChars[d] = c

DigitOf(c) == (CHOOSE d \in 1..10 : DigitChars[d] = c) - 1

RECURSIVE DecimalValue(_, _)
DecimalValue(digits, acc) ==
    IF digits = <<>> THEN acc
    ELSE DecimalValue(Tail(digits), 10 * acc + DigitOf(Head(digits)))

\* s.parse::<u32>(): an optional "+" and then at least one decimal digit,
\* nothing else (values of GpuTextLen characters are below 2^32)
ParseU32(item) ==
    LET digits == IF item # <<>> /\ Head(item) = "+" THEN Tail(item) ELSE item
    IN  IF digits # <<>> /\ \A j \in 1..Len(digits) : IsDigit(digits[j])
        THEN [ok |-> TRUE, value |-> DecimalValue(digits, 0)]
        ELSE [ok |-> FALSE, value |-> 0]

\* get_bus_id: the four bytes of info_raw(0x4008), least significant first
get_bus_id(d) ==
    IF d.info.ok
    THEN [ok |-> TRUE,
          value |-> d.info.raw[1] + d.info.raw[2] * (2 ^ 8)
                      + d.info.raw[3] * (2 ^ 16) + d.info.raw[4] * (2 ^ 24)]
    ELSE [ok |-> FALSE, value |-> 0]

\* bus_ids.contains(&id)
Contains(bus_ids, id) == \E j \in 1..Len(bus_ids) : bus_ids[j] = id

\* a filter that keeps the devices the list does not name
FilterDevicesOthers(devs, bus_ids, j, filtered_devs) ==
    GpuOk(SelectSeq(devs, LAMBDA d : ~Contains(bus_ids, get_bus_id(d).value)))

RECURSIVE FilterDevices(_, _, _, _)
\* "for d in devs.iter() { if bus_ids.contains(&get_bus_id(*d)?) { .. } }",
\* from device j on
FilterDevices(devs, bus_ids, j, filtered_devs) ==
    IF j > Len(devs) THEN GpuOk(filtered_devs)
    ELSE LET id == get_bus_id(devs[j])
         IN  IF ~id.ok THEN GpuErr(OclError)
             ELSE FilterDevices(devs, bus_ids, j + 1,
                                IF Contains(bus_ids, id.value)
                                THEN Append(filtered_devs, devs[j])
                                ELSE filtered_devs)

\* Platform::list()?.into_iter().find(..): the position of the first
\* platform whose name is known and equal to platform_name, 0 if none
FindPlatform(platforms, platform_name) ==
    LET hits == {j \in 1..Len(platforms) :
                    platforms[j].ok /\ platforms[j].name = platform_name}
    IN  IF hits = {} THEN 0 ELSE CHOOSE j \in hits : \A h \in hits : j <= h

get_devices(no_gpu, gpus, platforms, platform_name, devices) ==
    IF EnvVarOk(no_gpu) THEN GpuErr(DisabledMsg)
    ELSE IF ~platforms.ok THEN GpuErr(OclError)
    ELSE
      LET platform == FindPlatform(platforms.list, platform_name)
          items == SplitCommas(gpus.text)
          parsed == [j \in 1..Len(items) |-> ParseU32(items[j])]
      IN  IF EnvVarOk(gpus) /\ \E j \in 1..Len(items) : ~parsed[j].ok
          THEN GpuPanic(BusIdPanic)
          ELSE IF platform = 0 THEN GpuErr(NotFoundMsg)
          ELSE IF ~devices.ok THEN GpuErr(OclError)
          ELSE IF EnvVarOk(gpus)
               THEN FilterDevices(devices.list,
                                  [j \in 1..Len(items) |-> parsed[j].value], 1, <<>>)
               ELSE GpuOk(devices.list)

\* ---- inputs of the explored calls of get_devices
GpuChars == {"0", "1", ",", "+"}

GpuTexts == UNION {[1..n -> GpuChars] : n \in 0..GpuTextLen}

EnvUnset == [set |-> FALSE, unicode |-> FALSE, text |-> <<>>]

EnvNotUnicode == [set |-> TRUE, unicode |-> FALSE, text |-> <<>>]

EnvText(text) == [set |-> TRUE, unicode |-> TRUE, text |-> text]

Platform(ok, name) == [ok |-> ok, name |-> name]

Device(id, ok, raw) == [id |-> id, info |-> [ok |-> ok, raw |-> raw]]

PlatformLists ==
    { [ok |-> FALSE, list |-> <<>>],
      [ok |-> TRUE, list |-> <<>>],
      [ok |-> TRUE, list |-> <<Platform(TRUE, "Other")>>],
      [ok |-> TRUE, list |-> <<Platform(TRUE, GPU_NVIDIA_PLATFORM_NAME)>>],
      [ok |-> TRUE, list |-> <<Platform(FALSE, GPU_NVIDIA_PLATFORM_NAME),
                               Platform(TRUE, "Other"),
                               Platform(TRUE, GPU_NVIDIA_PLATFORM_NAME)>>] }

DeviceLists ==
    { [ok |-> FALSE, list |-> <<>>],
      [ok |-> TRUE, list |-> <<>>],
      [ok |-> TRUE, list |-> <<Device(1, TRUE, <<1, 0, 0, 0>>)>>],
      [ok |-> TRUE, list |-> <<Device(1, TRUE, <<10, 0, 0, 0>>),
                               Device(2, TRUE, <<1, 0, 0, 0>>),
                               Device(3, TRUE, <<0, 0, 0, 0>>)>>],
      [ok |-> TRUE, list |-> <<Device(1, TRUE, <<1, 1, 0, 0>>),
                               Device(2, TRUE, <<11, 0, 0, 0>>),
                               Device(3, TRUE, <<1, 0, 0, 0>>)>>],
      [ok |-> TRUE, list |-> <<Device(1, TRUE, <<1, 0, 0, 0>>),
                               Device(2, FALSE, <<0, 0, 0, 0>>)>>] }

GpuInit ==
    /\ AccIdle
    /\ ParIdle
    /\ ChunkIdle
    /\ g_pc = "call"
    /\ g_no_gpu \in {EnvUnset, EnvNotUnicode, EnvText(<<>>), EnvText(<<"1">>)}
    /\ g_gpus \in {EnvUnset, EnvNotUnicode} \cup {EnvText(text) : text \in GpuTexts}
    /\ g_platforms \in PlatformLists
    /\ g_platform_name = GPU_NVIDIA_PLATFORM_NAME
    /\ g_devices \in DeviceLists
    /\ g_result = [kind |-> "none", msg |-> "", devs |-> <<>>]

GetDevices ==
    /\ g_pc = "call"
    /\ g_result' = get_devices(g_no_gpu, g_gpus, g_platforms, g_platform_name,
                               g_devices)
    /\ g_pc' = "over"
    /\ UNCHANGED <<g_no_gpu, g_gpus, g_platforms, g_platform_name, g_devices>>
    /\ UNCHANGED <<acc_vars, par_vars, chunk_vars>>

GpuNext == GetDevices

SpecGpu == GpuInit /\ [][GpuNext]_vars

\* ------------------------------------------------ accumulator runs: claims
\* nbits is a multiple of window_size and window_size divides 64
ValidConfig(window_size, nbits) ==
    /\ nbits % window_size = 0
    /\ 64 % window_size = 0

\* the call of multiscalar made in this run was over the scalars and points
\* of the global indices a_off .. a_off + a_items - 1
AccExpected == NaiveSum(a_k, a_points, a_off, a_off + a_items, a_nbits)

\* C3: for every num_items (0 included), every table or view covering at
\* least num_items points and every nbits that is a multiple of window_size
\* with window_size dividing 64, multiscalar returns, without failing, the
\* sum of (low nbits bits of scalar_m) * point_m over m in 0..num_items
C3_AccumulatorSum ==
    (a_pc = "done" /\ ValidConfig(a_window, a_nbits))
        => (a_out.status = "ok" /\ a_out.result = AccExpected)

\* the same for a table or view that holds at least one point: the only
\* failures of C3_AccumulatorSum are over a table without points
AccumulatorSumNonEmptyTable ==
    (a_pc = "done" /\ ValidConfig(a_window, a_nbits)
       /\ Len(a_points) - a_off >= 1)
        => (a_out.status = "ok" /\ a_out.result = AccExpected
            /\ a_out.doubles = a_nbits)

\* C4: after precompute_fixed_window(points, w), w >= 1, the table holds one
\* sub-table per base point in the input order, each of 2^w - 1 entries,
\* entry j of sub-table i is (j+1) * P_i, and window_mask is (1 << w) - 1
C4_TableExact ==
    (a_pc # "new" /\ a_window >= 1)
        => /\ a_table.num_points = Len(a_points)
           /\ a_table.window_size = a_window
           /\ a_table.window_mask = (2 ^ a_window) - 1
           /\ a_table.table_entries = (2 ^ a_window) - 1
           /\ Len(a_table.tables) = Len(a_points)
           /\ \A i \in 1..Len(a_points) :
                 /\ Len(a_table.tables[i]) = (2 ^ a_window) - 1
                 /\ \A j \in 0..((2 ^ a_window) - 2) :
                       a_table.tables[i][j + 1] = ((j + 1) * a_points[i]) % GroupOrder

C4_Witness ==
    /\ a_pc = "table"
    /\ Len(a_points) = 2
    /\ a_window = 4
    /\ a_points[1] # a_points[2]
    /\ Len(a_table.tables[2]) = 15

\* C5: a call of multiscalar with nbits not a multiple of window_size, or
\* with a window_size that does not divide 64, fails with the configuration
\* error before any doubling, table lookup or addition
C5_RejectsFirst ==
    (a_pc = "done" /\ (a_nbits % a_window # 0 \/ 64 % a_window # 0))
        => /\ a_out.status = ConfigPanic
           /\ a_out.doubles = 0
           /\ a_out.prefetches = 0
           /\ a_out.adds = 0

C5_Witness ==
    /\ a_pc = "done"
    /\ a_window = 7
    /\ a_nbits = 64
    /\ a_items = 2
    /\ a_out.status = ConfigPanic

\* C8: at_point(k), k <= n, keeps window_size, window_mask and
\* table_entries, leaves num_points = n - k and sub-table j of the view is
\* sub-table k + j of the owner; at_point(a) then at_point(b) on the view is
\* at_point(a + b) on the owner; and multiscalar over the view with the
\* scalars of the global indices [k, k+m) is the sum of scalar_i * P_i over
\* them
ViewOfOwner ==
    a_pc = "view"
        => /\ a_view.window_size = a_table.window_size
           /\ a_view.window_mask = a_table.window_mask
           /\ a_view.table_entries = a_table.table_entries
           /\ a_view.num_points = a_table.num_points - a_off
           /\ Len(a_view.tables) = a_view.num_points
           /\ \A j \in 1..Len(a_view.tables) :
                 a_view.tables[j] = a_table.tables[a_off + j]
           /\ a_view = OwnedAtPoint(a_table, a_off)

ViewChunkSum ==
    (a_pc = "done" /\ a_via = "view" /\ ValidConfig(a_window, a_nbits))
        => (a_out.status = "ok" /\ a_out.result = AccExpected)

C8_TableView == ViewOfOwner /\ ViewChunkSum

\* the view part of C8, and its chunk part for a chunk of at least one point
ViewChunkSumNonEmpty ==
    /\ ViewOfOwner
    /\ (a_pc = "done" /\ a_via = "view" /\ ValidConfig(a_window, a_nbits)
          /\ a_items >= 1)
         => (a_out.status = "ok" /\ a_out.result = AccExpected)

\* ------------------------------------------------ par_multiscalar: claims
Finished == p_pc \in {"returned", "panicked"}

ParValid == ValidConfig(p_table.window_size, p_nbits)

\* every scalar is below 2^nbits
ScalarsFit ==
    \A i \in 1..p_num_points : LowBits(p_k.data[i], p_nbits) = p_k.data[i]

\* sum of scalar_i * point_i over i in 0..num_points, all bits of the scalars
FullSum == NaiveSum(p_k.data, p_points, 0, p_num_points, NumLimbs * BITS_PER_LIMB)

\* sum of (low nbits bits of scalar_i) * point_i over i in 0..num_points
LowSum == NaiveSum(p_k.data, p_points, 0, p_num_points, p_nbits)

\* C1: for every point count, max_threads >= 1, scalars, points and
\* interleaving of the workers, par_multiscalar over a table built by
\* precompute_fixed_window and a valid nbits (a multiple of window_size that
\* divides 64 and covers the scalars) returns the naive sum of
\* scalar_i * point_i, the identity when there is no point
C1_ParSum ==
    (Finished /\ p_max_threads >= 1 /\ ParValid /\ ScalarsFit)
        => (p_pc = "returned" /\ p_result = FullSum)

C1_Witness ==
    /\ p_pc = "returned"
    /\ p_num_points = 1025
    /\ p_num_threads = 2
    /\ p_nbits = 6
    /\ \A t \in Workers : thr_result[t] # zero
    /\ p_result # zero

\* the value of the call computed without chunks, workers or a schedule:
\* one multiscalar over all the points
Unchunked ==
    IF p_num_points = 0 THEN zero
    ELSE multiscalar(p_k.data, p_table, p_num_points, p_nbits).result

\* C2: for fixed scalars, table, num_points and nbits the value returned is
\* the same for max_threads = 1, 2 and 8 and for every order in which the
\* workers claim chunks: it is a function of those inputs alone
C2_Deterministic ==
    (p_pc = "returned" /\ p_max_threads >= 1) => p_result = Unchunked

C2_Witness ==
    /\ p_pc = "returned"
    /\ p_max_threads = 8
    /\ p_num_threads = 3
    /\ p_nbits = 4
    /\ \A t \in Workers : w_i[t] >= 3
    /\ thr_result[3] # zero
    /\ p_result # zero

\* C6: a configuration error aborts the call of par_multiscalar before any
\* worker is started, before the work counter is incremented and before
\* any scalar is fetched or accumulated
C6_FailFast ==
    p_pc = "panicked"
        => /\ p_num_threads = 0
           /\ work = 0
           /\ getter_calls = 0
           /\ ms_calls = 0

\* C7: whatever num_points and max_threads are, the call ends in the
\* configuration error if nbits is not a multiple of window_size or
\* window_size does not divide 64, and returns a value otherwise
C7_ErrorIffInvalid ==
    Finished => (p_pc = "panicked" <=> ~ParValid)

\* the same for the calls that have a chunk and a worker to take it
ErrorIffInvalidWithWork ==
    (Finished /\ p_num_points >= 1 /\ p_max_threads >= 1)
        => (p_pc = "panicked" <=> ~ParValid)

\* C9 as stated: chunk size 16 for every num_points below 1024 (from 16 on,
\* where the fallback does not apply) and 256 for every num_points at or
\* above 1024
C9_TiersAsStated ==
    (c_pc = "out" /\ c_num_points >= 16)
        => c_chunk_size = (IF c_num_points >= 1024 THEN 256 ELSE 16)

\* C9 amended: chunk size 16 for every num_points from 16 to 1024, the
\* value 1024 included, and 256 for every num_points above 1024
C9_Tiers ==
    (c_pc = "out" /\ c_num_points >= 16)
        => c_chunk_size = (IF c_num_points <= 1024 THEN 16 ELSE 256)

C9_Witness ==
    /\ c_pc = "out"
    /\ c_num_points = 1024
    /\ c_chunk_size = 16

\* C10: for num_points in 1..15 a call (max_threads >= 1, valid nbits) uses
\* chunk size 1, makes exactly num_points calls of multiscalar, each over
\* exactly one point, and returns the correct sum
C10_Fallback ==
    (p_pc # "call" /\ p_num_points \in 1..15)
        => /\ p_chunk_size = 1
           /\ (Finished /\ p_max_threads >= 1 /\ ParValid)
                 => /\ p_pc = "returned"
                    /\ ms_calls = p_num_points
                    /\ ms_items = {1}
                    /\ p_result = LowSum
                    /\ ScalarsFit => p_result = FullSum

C10_Witness ==
    /\ p_pc = "returned"
    /\ p_num_points = 3
    /\ p_max_threads = 2
    /\ p_chunk_size = 1
    /\ ms_calls = 3
    /\ p_nbits = 6
    /\ p_result # zero

\* what multiscalar leaves for chunk c of the call when the scalars are the
\* tail s[start_idx..] of a sequence s that holds the call's scalars
SliceChunk(c) ==
    LET start_idx == c * p_chunk_size
        end_idx == EndIdx(start_idx, p_chunk_size, p_num_points)
    IN  multiscalar(SliceFrom(p_k.data, start_idx), OwnedAtPoint(p_table, start_idx),
                    end_idx - start_idx, p_nbits)

RECURSIVE SliceChunks(_, _)
\* the chunks lo .. hi-1 over that sequence: whether all of them returned,
\* and the sum of what they returned
SliceChunks(lo, hi) ==
    IF lo >= hi THEN [status |-> "ok", result |-> zero]
    ELSE IF hi = lo + 1
         THEN LET one == SliceChunk(lo)
              IN  [status |-> one.status, result |-> one.result]
    ELSE LET mid == (lo + hi) \div 2
             first == SliceChunks(lo, mid)
         IN  IF first.status # "ok" THEN first
             ELSE LET second == SliceChunks(mid, hi)
                  IN  [status |-> second.status,
                       result |-> add_assign(first.result, second.result)]

\* C11: with a sequence s and a getter g, g(i) = s[i], the call over
\* Slice(s) and the call over Getter(g) end the same way and return the same
\* group element, for every num_points, max_threads >= 1 and interleaving:
\* both leave what the chunks over the sequence s add up to
C11_GetterAsSlice ==
    (Finished /\ p_max_threads >= 1)
        => LET over_s == SliceChunks(0, Chunks(p_num_points))
           IN  /\ p_pc = "returned" <=> over_s.status = "ok"
               /\ p_pc = "returned" => p_result = over_s.result

\* a getter call of 17 points returned: a chunk of 16 and a last chunk of 1
C11_Witness ==
    /\ p_pc = "returned"
    /\ p_k.kind = "Getter"
    /\ p_num_points = 17
    /\ p_num_threads = 2
    /\ ms_items = {16, 1}
    /\ getter_calls = 17
    /\ p_result # zero

\* ------------------------------------- the accumulator's digits and trace
\* the positions of the one bits of a scalar, limb j holding the bits
\* 64*j .. 64*j + 63
ScalarBits(repr) ==
    UNION {{(j - 1) * 64 + b : b \in repr[j]} : j \in 1..Len(repr)}

\* bits [i*w, (i+1)*w) of a scalar read as one unsigned integer
BitsDigit(repr, i, w) ==
    BitsValue({b - i * w : b \in {c \in ScalarBits(repr) : i * w <= c /\ c < (i + 1) * w}})

\* the scalar of point m of the call of multiscalar made in this run
AccScalar(m) == a_k[a_off + m + 1]

AccWindows == 0..((a_nbits \div a_window) - 1)

AccItems == 0..(a_items - 1)

\* the call of multiscalar of this run had a valid configuration and returned
AccReturned ==
    /\ a_pc = "done"
    /\ ValidConfig(a_window, a_nbits)
    /\ a_out.status = "ok"

\* the events of the trace that touch sub-table m in window i
EventsOf(m, i) ==
    {j \in 1..Len(a_out.trace) :
        a_out.trace[j].table = m /\ a_out.trace[j].window = i}

\* the number of <<point, window>> pairs of the call whose digit is not 0
NonzeroDigits ==
    Cardinality({pw \in AccItems \X AccWindows :
                    BitsDigit(AccScalar(pw[1]), pw[2], a_window) # 0})

\* C12: a zero digit of a point in a window causes no table lookup and no
\* addition for that point in that window, so that a scalar equal to 0
\* causes none in any window and, when every scalar is 0, the result is the
\* identity; lookups and additions are as many as the nonzero digits
C12_ZeroDigitSkips ==
    AccReturned
        => /\ \A m \in AccItems : \A i \in AccWindows :
                 BitsDigit(AccScalar(m), i, a_window) = 0 => EventsOf(m, i) = {}
           /\ \A m \in AccItems :
                 ScalarBits(AccScalar(m)) = {}
                    => \A j \in 1..Len(a_out.trace) : a_out.trace[j].table # m
           /\ a_out.prefetches = NonzeroDigits
           /\ a_out.adds = NonzeroDigits
           /\ (\A m \in AccItems : ScalarBits(AccScalar(m)) = {})
                 => (a_out.adds = 0 /\ a_out.result = zero)

\* a call over a zero scalar followed by a nonzero one, 9 windows of 8 bits
C12_Witness ==
    /\ AccReturned
    /\ a_window = 8
    /\ a_nbits = 72
    /\ a_items = 2
    /\ a_off = 0
    /\ ScalarBits(a_k[1]) = {}
    /\ ScalarBits(a_k[2]) # {}
    /\ a_out.adds > 0
    /\ \A j \in 1..Len(a_out.trace) : a_out.trace[j].table = 1

\* ------------------------------------------- par_multiscalar: the chunks
\* ceil(num_points / chunk_size) of the running call
CeilChunks ==
    (p_num_points \div p_chunk_size)
        + (IF p_num_points % p_chunk_size = 0 THEN 0 ELSE 1)

\* the chunk indices taken off the counter so far
ClaimedChunks == {c[2] : c \in claimed}

\* C13: for max_threads >= 1 and every interleaving, no chunk index is
\* claimed by two workers, every claimed range lies within [0, num_points),
\* no point is accumulated or asked of the getter twice, and when the call
\* returns every chunk index in 0..ceil(num_points/chunk_size) was claimed
\* and every point index was accumulated exactly once and (getter source)
\* asked of the getter exactly once
C13_ChunksOnce ==
    (p_pc # "call" /\ p_max_threads >= 1)
        => /\ \A c \in claimed : \A d \in claimed : c[2] = d[2] => c[1] = d[1]
           /\ \A c \in claimed :
                 /\ c[1] \in Workers
                 /\ c[2] * p_chunk_size < p_num_points
                 /\ EndIdx(c[2] * p_chunk_size, p_chunk_size, p_num_points)
                       <= p_num_points
           /\ \A j \in 1..p_num_points : acc_count[j] <= 1 /\ getter_count[j] <= 1
           /\ p_pc = "returned"
                 => /\ ClaimedChunks = 0..(CeilChunks - 1)
                    /\ \A j \in 1..p_num_points :
                          /\ acc_count[j] = 1
                          /\ getter_count[j] = (IF p_k.kind = "Getter" THEN 1 ELSE 0)

\* a getter call of 1025 points returned, its 5 chunks shared by 2 workers
C13_Witness ==
    /\ p_pc = "returned"
    /\ p_k.kind = "Getter"
    /\ p_num_points = 1025
    /\ p_num_threads = 2
    /\ Cardinality(claimed) = 5
    /\ \A t \in Workers : Cardinality({c \in claimed : c[1] = t}) >= 2
    /\ getter_calls = 1025

\* every worker stopped at the break: the counter value it obtained last
\* has its start_idx at or beyond num_points
WorkersExhausted ==
    \A t \in Workers : w_pc[t] = "done" /\ w_i[t] * p_chunk_size >= p_num_points

\* C14: under fair scheduling every call ends; a call with a valid
\* configuration returns, every worker having obtained a counter value whose
\* start_idx is >= num_points and stopped; and the reduction never starts
\* while a worker still holds a chunk or has not left its loop
C14_Terminates ==
    /\ [](Finished => \A t \in Workers : w_pc[t] \in {"done", "panic"})
    /\ [](p_pc = "returned" => WorkersExhausted)
    /\ <>Finished
    /\ (p_pc = "call" /\ ParValid) ~> (p_pc = "returned" /\ WorkersExhausted)

\* 3 workers took the 3 chunks of a call and then one exhausted value each
C14_Witness ==
    /\ p_pc = "returned"
    /\ p_num_threads = 3
    /\ WorkersExhausted
    /\ work = CeilChunks + p_num_threads
    /\ \A t \in Workers : \E c \in claimed : c[1] = t

\* C15: the number of workers started is min(max_threads,
\* ceil(num_points / chunk_size)), never more than the number of chunks;
\* when it is 0 (num_points = 0, or max_threads = 0) no worker runs, the
\* work counter stays 0, no scalar is fetched, and the call returns the
\* identity
C15_WorkerCount ==
    p_pc # "call"
        => /\ p_num_threads = (IF p_max_threads <= CeilChunks
                               THEN p_max_threads ELSE CeilChunks)
           /\ p_num_threads <= CeilChunks
           /\ Len(w_pc) = p_num_threads
           /\ \A c \in claimed : c[1] \in 1..p_num_threads
           /\ p_num_threads = 0 <=> (p_num_points = 0 \/ p_max_threads = 0)
           /\ p_num_threads = 0
                 => /\ work = 0
                    /\ claimed = {}
                    /\ getter_calls = 0
                    /\ ms_calls = 0
                    /\ p_pc # "panicked"
                    /\ p_pc = "returned" => p_result = zero

\* a call over 17 points with max_threads = 0 returned the identity
C15_Witness ==
    /\ p_pc = "returned"
    /\ p_max_threads = 0
    /\ p_num_points = 17
    /\ p_num_threads = 0
    /\ work = 0
    /\ p_result = zero
    /\ FullSum # zero

\* worker t takes a value off the counter in this step
TakesWork(t) == w_pc[t] = "loop" /\ w_pc'[t] # "loop"

\* worker t finishes the chunk it holds in this step
FinishesChunk(t) == w_pc[t] = "chunk" /\ w_pc'[t] # "chunk"

\* the events of a trace go window by window and, within a window, turn
\* by turn upwards
TraceInOrder(trace) ==
    \A j \in 1..(Len(trace) - 1) :
        \/ trace[j].window > trace[j + 1].window
        \/ trace[j].window = trace[j + 1].window /\ trace[j].at <= trace[j + 1].at

\* C16: the work counter never decreases and changes only by a worker's
\* fetch-and-increment, by exactly 1; the value a worker obtains is the
\* counter's, above every chunk index the same worker claimed before, so a
\* worker's chunks and point ranges go upwards, and within a chunk the
\* points are gone through in index order
C16_CounterOrder ==
    [][ /\ work' = work \/ work' = work + 1
        /\ work' # work => \E t \in DOMAIN w_pc : TakesWork(t)
        /\ \A t \in DOMAIN w_pc :
              /\ TakesWork(t)
                    => /\ work' = work + 1
                       /\ w_i'[t] = work
                       /\ \A c \in claimed : c[1] = t => c[2] < w_i'[t]
              /\ FinishesChunk(t)
                    => TraceInOrder(ChunkRun(w_i[t], scalar_storage[t]).acc.trace)
      ]_vars

\* chunk 1 was accumulated by worker 2 while worker 1 still holds chunk 0:
\* between workers the chunks are not accumulated in index order
C16_Witness ==
    /\ p_pc = "running"
    /\ p_num_points = 17
    /\ p_num_threads = 2
    /\ w_pc[1] = "chunk" /\ w_i[1] = 0
    /\ w_pc[2] = "loop" /\ w_i[2] = 1
    /\ claimed = {<<1, 0>>, <<2, 1>>}
    /\ acc_count[1] = 0
    /\ acc_count[17] = 1

\* ---------------------------------------------- the prefetch pipeline
IsAddition(e) == e.op \in {"add", "flush"}

IsLookup(e) == e.op = "prefetch"

RECURSIVE PlainWindow(_, _, _)
\* a loop without pipelining over the points m, m+1, .. of window i: the
\* entry (d - 1) of point m's sub-table for each nonzero digit d, tagged
\* as the lookup of turn m (lookup TRUE) or as the addition committed in
\* turn m + 1, the flush for the last point
PlainWindow(i, m, lookup) ==
    IF m >= a_items THEN <<>>
    ELSE LET d == BitsDigit(AccScalar(m), i, a_window)
             e == IF lookup THEN TableEvent("prefetch", i, m, m, d - 1)
                  ELSE TableEvent(IF m = a_items - 1 THEN "flush" ELSE "add",
                                  i, m + 1, m, d - 1)
         IN  (IF d # 0 THEN <<e>> ELSE <<>>) \o PlainWindow(i, m + 1, lookup)

RECURSIVE PlainLoop(_, _)
\* the same for the windows i, i-1, .., 0
PlainLoop(i, lookup) ==
    IF i < 0 THEN <<>>
    ELSE PlainWindow(i, 0, lookup) \o PlainLoop(i - 1, lookup)

\* C17: in every window the pipeline commits the additions of a loop
\* without pipelining: for each point m with a nonzero digit d, entry d - 1
\* of point m's own sub-table, once, in increasing order of m, looked up in
\* turn m and added in turn m + 1 or, for the last point, by the flush
\* after the loop; nothing else is added
C17_PipelineAdds ==
    AccReturned
        => /\ SelectSeq(a_out.trace, IsAddition)
                 = PlainLoop((a_nbits \div a_window) - 1, FALSE)
           /\ SelectSeq(a_out.trace, IsLookup)
                 = PlainLoop((a_nbits \div a_window) - 1, TRUE)
           /\ \A j \in 1..Len(a_out.trace) :
                 IsAddition(a_out.trace[j])
                    => \E h \in 1..(j - 1) :
                          /\ IsLookup(a_out.trace[h])
                          /\ a_out.trace[h].window = a_out.trace[j].window
                          /\ a_out.trace[h].table = a_out.trace[j].table
                          /\ a_out.trace[h].entry = a_out.trace[j].entry
                          /\ a_out.trace[h].at < a_out.trace[j].at

\* a window in which point 0 was added during turn 1 and point 1 by the flush
C17_Witness ==
    /\ AccReturned
    /\ a_items = 2
    /\ a_window = 4
    /\ \E j \in 1..(Len(a_out.trace) - 1) :
          /\ a_out.trace[j].op = "add"
          /\ a_out.trace[j].table = 0
          /\ a_out.trace[j].at = 1
          /\ a_out.trace[j + 1].op = "flush"
          /\ a_out.trace[j + 1].table = 1
          /\ a_out.trace[j + 1].window = a_out.trace[j].window

\* ------------------------------------------------------------ the digits
\* the digit multiscalar extracts for point m in window i: limb
\* (i*w)/64 shifted right by (i mod (64/w))*w and masked by window_mask
ExtractedDigit(m, i) ==
    WindowDigit(AccScalar(m), (i * a_window) \div BITS_PER_LIMB,
                i % (BITS_PER_LIMB \div a_window), a_window, a_table.window_mask)

\* C18: for every window size w dividing 64 and every window i in
\* 0..nbits/w, the digit extracted for a scalar is bits [i*w, (i+1)*w) of
\* the scalar read as one unsigned integer; the window lies within one limb,
\* the digit is in 0..2^w - 1, and a nonzero digit d names an entry d - 1
\* that its sub-table holds, the one the call looked up
C18_DigitBits ==
    AccReturned
        => \A m \in AccItems : \A i \in AccWindows :
              LET d == ExtractedDigit(m, i)
              IN  /\ d = BitsDigit(AccScalar(m), i, a_window)
                  /\ d \in 0..((2 ^ a_window) - 1)
                  /\ (i * a_window) \div 64 = ((i + 1) * a_window - 1) \div 64
                  /\ d > 0 => /\ d - 1 < Len(a_table.tables[a_off + m + 1])
                              /\ \E j \in 1..Len(a_out.trace) :
                                    a_out.trace[j]
                                       = TableEvent("prefetch", i, m, m, d - 1)

\* 9 windows of 8 bits: bit 63 gives digit 128 in window 7, the last of
\* limb 0, and bit 64 gives digit 1 in window 8, the first of limb 1
C18_Witness ==
    /\ AccReturned
    /\ a_window = 8
    /\ a_nbits = 72
    /\ a_items >= 1
    /\ a_off = 0
    /\ {63, 64} \subseteq ScalarBits(a_k[1])
    /\ \E j \in 1..(Len(a_out.trace) - 1) :
          /\ a_out.trace[j] = TableEvent("prefetch", 8, 0, 0, 0)
          /\ \E h \in (j + 1)..Len(a_out.trace) :
                a_out.trace[h] = TableEvent("prefetch", 7, 0, 0, 127)

\* ------------------------------------------- what a chunk's call is handed
\* the sum multiscalar owes for the chunk worker t holds: over the points
\* start_idx .. end_idx - 1 and nothing else
OwnChunkSum(t) ==
    LET start_idx == w_i[t] * p_chunk_size
    IN  NaiveSum(p_k.data, p_points, start_idx,
                 EndIdx(start_idx, p_chunk_size, p_num_points), p_nbits)

\* the scratch buffer of worker t after it staged the chunk it holds: the
\* chunk's num_items scalars in front, behind them what the buffer held
StagedOver(t) ==
    LET start_idx == w_i[t] * p_chunk_size
        num_items == EndIdx(start_idx, p_chunk_size, p_num_points) - start_idx
    IN  [j \in 1..p_chunk_size |->
            IF j <= num_items THEN p_k.data[start_idx + j]
            ELSE scalar_storage[t][j]]

\* C19: the accumulator reads only the scalars 0..num_items of what it is
\* handed: whatever an earlier chunk left further back in the worker's
\* scratch buffer (getter source) and whatever lies beyond end_idx in the
\* tail slice (slice source), a chunk adds the sum over its own points to
\* its worker's running sum; a scratch buffer is written only by its own
\* worker, only while it carries out a chunk of a getter source
C19_OwnScalarsOnly ==
    [][ \A t \in DOMAIN w_pc :
          /\ FinishesChunk(t)
                => /\ ParValid
                         => /\ w_pc'[t] = "loop"
                            /\ thr_result'[t] = add_assign(thr_result[t], OwnChunkSum(t))
                   /\ scalar_storage'[t] = (IF p_k.kind = "Getter" THEN StagedOver(t)
                                             ELSE scalar_storage[t])
                   /\ \A u \in DOMAIN w_pc \ {t} :
                         scalar_storage'[u] = scalar_storage[u]
          /\ (t \in DOMAIN scalar_storage /\ scalar_storage'[t] # scalar_storage[t])
                => FinishesChunk(t) /\ p_k.kind = "Getter"
      ]_vars

\* a worker staged chunk 0 (16 scalars) and then the last chunk (1 scalar)
\* of a getter call over 17 points: scalars of chunk 0 are still in its
\* buffer behind the one of the last chunk, and its sum is the call's
C19_Witness ==
    /\ p_k.kind = "Getter"
    /\ p_num_points = 17
    /\ p_nbits = 6
    /\ ParValid
    /\ \E t \in Workers :
          /\ {<<t, 0>>, <<t, 1>>} \subseteq claimed
          /\ w_pc[t] = "loop"
          /\ scalar_storage[t][1] = p_k.data[17]
          /\ scalar_storage[t][2] = p_k.data[2]
          /\ ScalarBits(p_k.data[2]) # {}
          /\ thr_result[t] = FullSum

\* ------------------------------------------------- get_devices: claims
\* the platform asked for is among the platforms listed
PlatformFound ==
    /\ g_platforms.ok
    /\ \E j \in 1..Len(g_platforms.list) :
          g_platforms.list[j].ok /\ g_platforms.list[j].name = g_platform_name

GpuItems == SplitCommas(g_gpus.text)

\* the bus id of device d appears in the comma-separated list
Listed(d) ==
    /\ d.info.ok
    /\ \E j \in 1..Len(GpuItems) :
          /\ ParseU32(GpuItems[j]).ok
          /\ ParseU32(GpuItems[j]).value = get_bus_id(d).value

\* the platform's devices whose bus id is listed, in the platform's order
ListedDevices == SelectSeq(g_devices.list, Listed)

\* every query of the OpenCL library succeeds
OclAnswers ==
    /\ g_platforms.ok
    /\ g_devices.ok
    /\ \A j \in 1..Len(g_devices.list) : g_devices.list[j].info.ok

\* C20 as stated (the OpenCL queries succeeding): the error 'GPU
\* accelerator is disabled!' whenever BELLMAN_NO_GPU is set; otherwise,
\* platform found: all of the platform's devices if BELLMAN_GPUS is unset,
\* exactly the listed ones in the platform's order if it is set; platform
\* not found: the error 'GPU platform not found!'
C20_AsStated ==
    (g_pc = "over" /\ OclAnswers)
        => /\ g_no_gpu.set => g_result = GpuErr(DisabledMsg)
           /\ (~g_no_gpu.set /\ PlatformFound /\ ~g_gpus.set)
                 => g_result = GpuOk(g_devices.list)
           /\ (~g_no_gpu.set /\ PlatformFound /\ g_gpus.set)
                 => g_result = GpuOk(ListedDevices)
           /\ (~g_no_gpu.set /\ ~PlatformFound)
                 => g_result = GpuErr(NotFoundMsg)

\* BELLMAN_GPUS is readable and one of its items is not a u32 number
MalformedGpus ==
    /\ EnvVarOk(g_gpus)
    /\ \E j \in 1..Len(GpuItems) : ~ParseU32(GpuItems[j]).ok

\* C20 amended: the error 'GPU accelerator is disabled!' whenever
\* BELLMAN_NO_GPU is set to a valid Unicode value; otherwise the error of
\* Platform::list() if it fails; otherwise the panic 'Invalid Bus-Id
\* number!' if BELLMAN_GPUS is set, valid Unicode, and one of its items is
\* not a u32 number, the platform found or not; otherwise 'GPU platform not
\* found!' if the platform is not found; otherwise the error of a failing
\* device or bus id query; otherwise all of the platform's devices if
\* BELLMAN_GPUS is unset or not valid Unicode, and exactly the devices whose
\* bus id is listed, in the platform's order, if it is set
C20_Devices ==
    g_pc = "over"
        => IF EnvVarOk(g_no_gpu) THEN g_result = GpuErr(DisabledMsg)
           ELSE IF ~g_platforms.ok THEN g_result = GpuErr(OclError)
           ELSE IF MalformedGpus THEN g_result = GpuPanic(BusIdPanic)
           ELSE IF ~PlatformFound THEN g_result = GpuErr(NotFoundMsg)
           ELSE IF ~g_devices.ok THEN g_result = GpuErr(OclError)
           ELSE IF ~EnvVarOk(g_gpus) THEN g_result = GpuOk(g_devices.list)
           ELSE IF \E j \in 1..Len(g_devices.list) : ~g_devices.list[j].info.ok
                THEN g_result = GpuErr(OclError)
           ELSE g_result = GpuOk(ListedDevices)

\* BELLMAN_GPUS = "1,0" over the devices of bus ids 10, 1, 0: the second
\* and the third device are returned, in the platform's order
C20_Witness ==
    /\ g_pc = "over"
    /\ ~g_no_gpu.set
    /\ g_gpus = EnvText(<<"1", ",", "0">>)
    /\ Len(g_devices.list) = 3
    /\ get_bus_id(g_devices.list[1]).value = 10
    /\ g_result.kind = "Ok"
    /\ Len(g_result.devs) = 2
    /\ g_result.devs[1] = g_devices.list[2]
    /\ g_result.devs[2] = g_devices.list[3]

====
